---- MODULE Spec2Model ----
(***************************************************************************)
(* Books API with Redis and cron jobs: the bulk ingestion job              *)
(* (bulkCron.js, processBulkBooks), the report job (processStatusReports)  *)
(* and the per-user book-list cache of the book routes.                    *)
(*                                                                         *)
(* Every await of the source is one step of the model: between two awaits  *)
(* the code runs to completion, at an await the store, the database or     *)
(* the mail transport answers or throws.                                   *)
(***************************************************************************)
EXTENDS Integers, Sequences, FiniteSets, TLC

\* ------------------------------------------------------------- bounds
MaxTime == 3
MaxBatch == 3
MaxOutages == 1

\* ------------------------------------------------------------- constants
StatusTTL == 86400
CacheTTL == 3600

Users == {"u1", "u2"}
OtherUser == "u0"
Times == 0..MaxTime

VARIABLES
  now,        \* Date.now(), in abstract milliseconds
  storeUp,    \* the key-value store answers (TRUE) or throws (FALSE)
  pending,    \* bulk_books:{userId}   -> raw value
  status,     \* bulk_status:{userId}:{ms} -> raw value
  bulkErr,    \* bulk_error:{userId}:{ms}  -> error record
  books,      \* the Book collection, in insertion order
  ij,         \* the run of processBulkBooks: its position and locals
  outages,    \* how many times the store has stopped answering
  obs,        \* observations of the run, read by the properties only
  reportErr,  \* report_error:{userId}:{ms} -> error record
  userEmail,  \* user_email:{userId} -> address
  userDb,     \* the User collection: userId -> record
  outbox,     \* the messages the transport accepted, in order
  rj,         \* the run of processStatusReports: its position and locals
  nextId,     \* the _id the database gives the next Book it creates
  cache,      \* user:{userId}:books -> serialized book list
  rq,         \* the requests in flight: per client, position and locals
  resp,       \* the last response sent
  dirty,      \* per user: a write succeeded and no list-read since
  auth        \* authMiddleware: per client, the request and what it did

bulkVars == <<pending, bulkErr, books, ij, obs, nextId>>
reportVars == <<reportErr, userEmail, userDb, outbox, rj>>
apiVars == <<cache, rq, resp, dirty, auth>>
vars == <<now, storeUp, pending, status, bulkErr, books, ij, outages, obs,
          reportErr, userEmail, userDb, outbox, rj, nextId, cache, rq, resp, dirty, auth>>

\* ------------------------------------------------------------- maps
Put(f, k, v) == [x \in (DOMAIN f) \cup {k} |-> IF x = k THEN v ELSE f[x]]
Del(f, k) == [x \in (DOMAIN f) \ {k} |-> f[x]]
EmptyMap == [x \in {} |-> 0]

RECURSIVE Perms(_)
Perms(S) ==
  IF S = {} THEN {<<>>}
  ELSE UNION {{<<x>> \o p : p \in Perms(S \ {x})} : x \in S}

\* ------------------------------------------------------------- submissions
\* A submission as JSON gives it: null, a primitive, or a mapping of fields.
NullItem == [t |-> "null", title |-> "", author |-> "", isbn |-> 0]
PrimItem == [t |-> "prim", title |-> "", author |-> "", isbn |-> 0]
Good     == [t |-> "obj", title |-> "A", author |-> "X", isbn |-> 0]
GoodIsbn == [t |-> "obj", title |-> "C", author |-> "Z", isbn |-> 1]
NoTitle  == [t |-> "obj", title |-> "", author |-> "Y", isbn |-> 0]
NoAuthor == [t |-> "obj", title |-> "B", author |-> "", isbn |-> 0]
Items == {NullItem, PrimItem, Good, GoodIsbn, NoTitle, NoAuthor}

SeqsUpTo(S, n) == UNION {[1..k -> S] : k \in 0..n}

\* The raw value under a key, by what JSON.parse makes of it.
Raw(kind, items) == [kind |-> kind, items |-> items]
EmptyStr    == Raw("emptystr", <<>>)
Unparseable == Raw("unparseable", <<>>)
NonArray    == Raw("nonarray", <<>>)
NoVal       == Raw("none", <<>>)
ArrayOf(items) == Raw("array", items)

\* JSON.parse(booksData): throws on text that is no JSON.
JSONParse(v) ==
  IF v.kind \in {"unparseable", "emptystr"} THEN [ok |-> FALSE, val |-> v]
  ELSE [ok |-> TRUE, val |-> v]

\* !Array.isArray(books) || books.length === 0
InvalidOrEmpty(v) == v.kind # "array" \/ Len(v.items) = 0

\* ------------------------------------------------------------- Book
\* Book.save(): the unique index on isbn rejects a second record with an isbn
\* that is present; dbOk = FALSE is any other failure of the database.
IsbnTaken(bs, isbn) == isbn # 0 /\ \E j \in 1..Len(bs) : bs[j].isbn = isbn

SaveOutcome(bs, isbn, dbOk) ==
  IF ~dbOk THEN "dberror"
  ELSE IF IsbnTaken(bs, isbn) THEN "E11000"
  ELSE "ok"

NewBook(item, userId, id) ==
  [id |-> id, title |-> item.title, author |-> item.author, isbn |-> item.isbn,
   userId |-> userId]

\* ------------------------------------------------------------- processBulkBooks
InitStatusZero(userId, n, t) ==
  [userId |-> userId, totalBooks |-> 0, successCount |-> 0, failureCount |-> 0,
   timestamp |-> t, failures |-> <<>>]

InitStatus(userId, n, t) ==
  [userId |-> userId, totalBooks |-> n, successCount |-> 0, failureCount |-> 0,
   timestamp |-> t, failures |-> <<>>]

NoStatus == InitStatus("", 0, 0)

\* JSON.stringify(status): the text of an object with these fields.
JSONStringify(st) == [kind |-> "object", obj |-> st]

\* `!book.title || !book.author` on a mapping or a primitive
MissingRequired(item) == item.t = "prim" \/ item.title = "" \/ item.author = ""

\* `book.title || 'Unknown'`
FailureTitle(item) == IF item.t = "prim" \/ item.title = "" THEN "Unknown" ELSE item.title

\* RecordFailure with the position among the failures recorded in place of
\* the position in the batch.
RecordFailurePostFilter(st, i, item, msg) ==
  [st EXCEPT !.failureCount = @ + 1,
             !.failures = Append(@, [index |-> Len(st.failures),
                                     title |-> FailureTitle(item), error |-> msg])]

\* The catch block of one item: failureCount++, then the push of the detail.
RecordFailure(st, i, item, msg) ==
  [st EXCEPT !.failureCount = @ + 1,
             !.failures = Append(@, [index |-> i, title |-> FailureTitle(item), error |-> msg])]

\* One turn of the item loop, books[i] with the database's answer `outcome`:
\* escaped = the exception left the item's try/catch (reading .title of null
\* throws in the try and again in the catch, after failureCount++).
ProcessItem(st, i, item, outcome) ==
  IF item.t = "null"
    THEN [escaped |-> TRUE, saved |-> FALSE, st |-> [st EXCEPT !.failureCount = @ + 1]]
  ELSE IF MissingRequired(item)
    THEN [escaped |-> FALSE, saved |-> FALSE,
          st |-> RecordFailure(st, i, item, "Missing required fields: title and author")]
  ELSE IF outcome # "ok"
    THEN [escaped |-> FALSE, saved |-> FALSE, st |-> RecordFailure(st, i, item, outcome)]
  ELSE [escaped |-> FALSE, saved |-> TRUE, st |-> [st EXCEPT !.successCount = @ + 1]]

NoKey == <<"", 0>>

IdleJob ==
  [pc |-> "idle", keys |-> <<>>, userId |-> "", books |-> <<>>, i |-> 0,
   st |-> NoStatus, statusKey |-> NoKey, error |-> ""]

NoObs ==
  [reads |-> [u \in Users |-> 0], seen |-> [u \in Users |-> NoVal],
   out |-> <<>>, skipped |-> {}, skippedStatus |-> {}]

\* `continue`, or the end of the loop body: the next key of the for-of, or return.
NextKey(j) ==
  IF j.keys = <<>> THEN IdleJob
  ELSE [IdleJob EXCEPT !.pc = "get", !.keys = Tail(j.keys), !.userId = Head(j.keys)]

\* The per-user catch is entered with `error`.
ToCatch(j, msg) == [j EXCEPT !.pc = "catch", !.error = msg]

\* redisClient.keys('bulk_books:*') at a cron tick; an empty list returns, a
\* throw goes to the outer catch.
BulkStartAt(t) ==
  /\ ij.pc = "idle"
  /\ now' = t
  /\ IF ~storeUp
       THEN ij' = IdleJob
       ELSE \E ks \in Perms(DOMAIN pending) : ij' = NextKey([IdleJob EXCEPT !.keys = ks])
  /\ obs' = [obs EXCEPT !.out = <<>>]
  /\ UNCHANGED <<storeUp, pending, status, bulkErr, books, outages, reportVars, nextId, apiVars>>

\* A cron tick of the ingestion job ('*/2 * * * *'): the clock has advanced.
BulkStart == now < MaxTime /\ BulkStartAt(now + 1)

\* A cron tick at the last instant of the clock, which stands for every
\* later time.
BulkStartLate == now = MaxTime /\ BulkStartAt(now)

\* redisClient.get(key), JSON.parse and the array test (lines 45-70)
BulkGet ==
  /\ ij.pc = "get"
  /\ LET u == ij.userId IN
     IF ~storeUp
       THEN /\ ij' = ToCatch(ij, "store")
            /\ obs' = obs
     ELSE IF u \notin DOMAIN pending
       THEN /\ ij' = NextKey(ij)
            /\ obs' = [obs EXCEPT !.skipped = @ \cup {u}]
     ELSE LET v == pending[u]
              o == [obs EXCEPT !.reads[u] = IF @ < MaxTime THEN @ + 1 ELSE @, !.seen[u] = v,
                              !.out = <<>>]
          IN
          IF v.kind = "emptystr"
            THEN /\ ij' = NextKey(ij)
                 /\ obs' = o
          ELSE IF ~JSONParse(v).ok
            THEN /\ ij' = ToCatch(ij, "SyntaxError")
                 /\ obs' = o
          ELSE IF InvalidOrEmpty(JSONParse(v).val)
            THEN /\ ij' = [ij EXCEPT !.pc = "delInvalid"]
                 /\ obs' = o
          ELSE /\ ij' = [ij EXCEPT !.pc = "item", !.books = JSONParse(v).val.items, !.i = 0,
                                   !.st = InitStatus(u, Len(JSONParse(v).val.items), now)]
               /\ obs' = o
  /\ UNCHANGED <<now, storeUp, pending, status, bulkErr, books, outages, reportVars, nextId, apiVars>>

\* redisClient.del(key) of an invalid or empty array (line 56)
BulkDelInvalid ==
  /\ ij.pc = "delInvalid"
  /\ IF ~storeUp
       THEN /\ ij' = ToCatch(ij, "store")
            /\ obs' = obs
            /\ UNCHANGED pending
       ELSE /\ pending' = Del(pending, ij.userId)
            /\ ij' = NextKey(ij)
            /\ obs' = obs
  /\ UNCHANGED <<now, storeUp, status, bulkErr, books, outages, reportVars, nextId, apiVars>>

\* One turn of `for (let i = 0; i < books.length; i++)` (lines 73-108)
BulkItem ==
  /\ ij.pc = "item"
  /\ \E dbOk \in BOOLEAN :
       LET item == ij.books[ij.i + 1]
           outcome == SaveOutcome(books, item.isbn, dbOk)
           r == ProcessItem(ij.st, ij.i, item, outcome)
           tried == item.t # "null" /\ ~MissingRequired(item)
       IN
       /\ books' = IF r.saved THEN Append(books, NewBook(item, ij.userId, nextId)) ELSE books
       /\ nextId' = IF r.saved THEN nextId + 1 ELSE nextId
       /\ IF r.escaped
            THEN /\ ij' = ToCatch([ij EXCEPT !.st = r.st], "TypeError")
                 /\ obs' = [obs EXCEPT !.out = Append(@, "threw")]
            ELSE /\ ij' = [ij EXCEPT !.st = r.st, !.i = @ + 1,
                                     !.pc = IF ij.i + 1 < Len(ij.books) THEN "item"
                                            ELSE "setStatus"]
                 /\ obs' = [obs EXCEPT !.out = Append(@, IF tried THEN outcome ELSE "invalid")]
  /\ UNCHANGED <<now, storeUp, pending, status, bulkErr, outages, reportVars, apiVars>>

\* BulkSetStatus that goes on to the del without writing the record.
BulkSetStatusSkips ==
  /\ ij.pc = "setStatus"
  /\ ij' = IF ~storeUp THEN ToCatch(ij, "store") ELSE [ij EXCEPT !.pc = "del"]
  /\ UNCHANGED <<now, storeUp, pending, status, bulkErr, books, obs, outages, reportVars, nextId, apiVars>>

\* redisClient.setEx(statusKey, 86400, JSON.stringify(status)) (lines 111-112)
BulkSetStatus ==
  /\ ij.pc = "setStatus"
  /\ IF ~storeUp
       THEN /\ ij' = ToCatch(ij, "store")
            /\ obs' = obs
            /\ UNCHANGED status
       ELSE /\ status' = Put(status, <<ij.userId, now>>, JSONStringify(ij.st))
            /\ ij' = [ij EXCEPT !.pc = "del", !.statusKey = <<ij.userId, now>>]
            /\ UNCHANGED obs
  /\ UNCHANGED <<now, storeUp, pending, bulkErr, books, outages, reportVars, nextId, apiVars>>

\* redisClient.del(key) of the processed batch (line 120)
BulkDel ==
  /\ ij.pc = "del"
  /\ IF ~storeUp
       THEN /\ ij' = ToCatch(ij, "store")
            /\ obs' = obs
            /\ UNCHANGED pending
       ELSE /\ pending' = Del(pending, ij.userId)
            /\ ij' = NextKey(ij)
            /\ obs' = obs
  /\ UNCHANGED <<now, storeUp, status, bulkErr, books, outages, reportVars, nextId, apiVars>>

\* BulkCatch that returns from the run once the error record is written.
BulkCatchReturns ==
  /\ ij.pc = "catch"
  /\ IF ~storeUp
       THEN /\ ij' = IdleJob
            /\ UNCHANGED bulkErr
       ELSE /\ bulkErr' = Put(bulkErr, <<ij.userId, now>>,
                              [userId |-> ij.userId, error |-> ij.error,
                               timestamp |-> now, status |-> "failed"])
            /\ ij' = IdleJob
  /\ UNCHANGED <<now, storeUp, pending, status, books, obs, outages, reportVars, nextId, apiVars>>

\* The per-user catch (lines 123-138): setEx of the error record; a throw of
\* that setEx leaves the for-of and is caught by the outer catch (line 142).
BulkCatch ==
  /\ ij.pc = "catch"
  /\ IF ~storeUp
       THEN /\ ij' = IdleJob
            /\ UNCHANGED bulkErr
       ELSE /\ bulkErr' = Put(bulkErr, <<ij.userId, now>>,
                              [userId |-> ij.userId, error |-> ij.error,
                               timestamp |-> now, status |-> "failed"])
            /\ ij' = NextKey(ij)
  /\ UNCHANGED <<now, storeUp, pending, status, books, obs, outages, reportVars, nextId, apiVars>>

PastTimes == {0 - 1, 0}
StatusKeys == Users \X (PastTimes \cup Times)

DefaultEmail == "admin@example.com"
MailOf(u) == <<"mail", u>>
CachedMailOf(u) == <<"cached", u>>
NoMail == <<"", "">>

\* ------------------------------------------------------------- processStatusReports
\* A status value that is no object with the fields of a status.
BadStatus(kind) == [kind |-> kind, obj |-> NoStatus]

\* `!parsedStatus.userId || parsedStatus.totalBooks === undefined` of a value
\* that is not null: a primitive has neither field.
InvalidStatus(v) ==
  \/ v.kind \in {"prim", "nouserid", "nototal"}
  \/ (v.kind = "object" /\ v.obj.userId = "")

\* ------------------------------------------------------------- generatePDFReport
FirstBlockY == 325
PageBreakY == 700
BlockHeight == 50
NewPageY == 50

\* `((successCount / totalBooks) * 100).toFixed(2)`: the text of a number with
\* two decimals (held in hundredths, rounded to nearest), "NaN" for 0 / 0 and
\* "Infinity" for n / 0; a division by zero does not throw.
Rate(kind, hundredths) == [kind |-> kind, hundredths |-> hundredths]

SuccessRate(successCount, totalBooks) ==
  IF totalBooks = 0
    THEN IF successCount = 0 THEN Rate("NaN", 0) ELSE Rate("Infinity", 0)
    ELSE Rate("number", (2 * successCount * 10000 + totalBooks) \div (2 * totalBooks))

\* FailureBlocks that lists the failures last to first.
FailureBlocksReversed(failures) ==
  [j \in 1..Len(failures) |->
     [n |-> j, title |-> failures[Len(failures) + 1 - j].title,
      index |-> failures[Len(failures) + 1 - j].index,
      error |-> failures[Len(failures) + 1 - j].error]]

\* The blocks of `statusData.failures.forEach((failure, index) => ...)`.
FailureBlocks(failures) ==
  [j \in 1..Len(failures) |->
     [n |-> j, title |-> failures[j].title, index |-> failures[j].index,
      error |-> failures[j].error]]

\* How many times the forEach calls doc.addPage() for n blocks, from block k at
\* yPosition y.
RECURSIVE PagesAdded(_, _, _)
PagesAdded(n, k, y) ==
  IF k > n THEN 0
  ELSE IF y > PageBreakY THEN 1 + PagesAdded(n, k + 1, NewPageY + BlockHeight)
  ELSE PagesAdded(n, k + 1, y + BlockHeight)

NoDoc ==
  [rate |-> Rate("", 0), section |-> FALSE, blocks |-> <<>>, successMark |-> FALSE,
   failureMark |-> FALSE]

\* generatePDFReport(statusData, userId): the document, or a rejection. The
\* document is created without bufferPages, so each addPage flushes the page
\* before it and the footer's doc.switchToPage(0) throws once a page was added.
GeneratePDFReport(statusData) ==
  LET hasSection == Len(statusData.failures) > 0
      added == IF hasSection THEN PagesAdded(Len(statusData.failures), 1, FirstBlockY) ELSE 0
  IN [ok |-> added = 0,
      doc |-> [rate |-> SuccessRate(statusData.successCount, statusData.totalBooks),
               section |-> hasSection,
               blocks |-> IF hasSection THEN FailureBlocks(statusData.failures) ELSE <<>>,
               successMark |-> statusData.successCount > 0,
               failureMark |-> statusData.failureCount > 0]]

IdleReport ==
  [pc |-> "idle", keys |-> <<>>, key |-> NoKey, userId |-> "", parsed |-> NoStatus,
   email |-> NoMail, error |-> "", doc |-> NoDoc]

\* `continue`, or the end of the loop body (line 433)
NextStatusKey(j) ==
  IF j.keys = <<>> THEN IdleReport
  ELSE [IdleReport EXCEPT !.pc = "get", !.keys = Tail(j.keys), !.key = Head(j.keys),
                          !.userId = Head(j.keys)[1]]

ReportToCatch(j, msg) == [j EXCEPT !.pc = "catch", !.error = msg]

\* redisClient.keys('bulk_status:*') at a cron tick (lines 416-431)
ReportStartAt(t) ==
  /\ rj.pc = "idle"
  /\ now' = t
  /\ IF ~storeUp
       THEN rj' = IdleReport
       ELSE \E ks \in Perms(DOMAIN status) : rj' = NextStatusKey([IdleReport EXCEPT !.keys = ks])
  /\ UNCHANGED <<storeUp, status, outages, bulkVars, apiVars, reportErr, userEmail, userDb, outbox>>

\* A cron tick of the report job ('*/5 * * * *'): the clock has advanced.
ReportStart == now < MaxTime /\ ReportStartAt(now + 1)

\* A cron tick at the last instant of the clock, which stands for every
\* later time.
ReportStartLate == now = MaxTime /\ ReportStartAt(now)

\* ReportGet that takes an absent value for an error.
ReportGetAbsentThrows ==
  /\ rj.pc = "get"
  /\ obs' = IF storeUp /\ rj.key \notin DOMAIN status
              THEN [obs EXCEPT !.skippedStatus = @ \cup {rj.key}] ELSE obs
  /\ LET k == rj.key IN
     IF ~storeUp THEN rj' = ReportToCatch(rj, "store")
     ELSE IF k \notin DOMAIN status THEN rj' = ReportToCatch(rj, "TypeError")
     ELSE IF status[k].kind = "emptystr" THEN rj' = NextStatusKey(rj)
     ELSE IF status[k].kind = "unparseable" THEN rj' = ReportToCatch(rj, "SyntaxError")
     ELSE IF status[k].kind = "null" THEN rj' = ReportToCatch(rj, "TypeError")
     ELSE IF InvalidStatus(status[k]) THEN rj' = [rj EXCEPT !.pc = "delInvalid"]
     ELSE rj' = [rj EXCEPT !.pc = "findUser", !.parsed = status[k].obj]
  /\ UNCHANGED <<now, storeUp, status, outages, pending, bulkErr, books, ij, nextId, apiVars, reportErr, userEmail, userDb, outbox>>

\* redisClient.get(key), JSON.parse and the validation (lines 439-453)
ReportGet ==
  /\ rj.pc = "get"
  /\ obs' = IF storeUp /\ rj.key \notin DOMAIN status
              THEN [obs EXCEPT !.skippedStatus = @ \cup {rj.key}] ELSE obs
  /\ LET k == rj.key IN
     IF ~storeUp THEN rj' = ReportToCatch(rj, "store")
     ELSE IF k \notin DOMAIN status THEN rj' = NextStatusKey(rj)
     ELSE IF status[k].kind = "emptystr" THEN rj' = NextStatusKey(rj)
     ELSE IF status[k].kind = "unparseable" THEN rj' = ReportToCatch(rj, "SyntaxError")
     ELSE IF status[k].kind = "null" THEN rj' = ReportToCatch(rj, "TypeError")
     ELSE IF InvalidStatus(status[k]) THEN rj' = [rj EXCEPT !.pc = "delInvalid"]
     ELSE rj' = [rj EXCEPT !.pc = "findUser", !.parsed = status[k].obj]
  /\ UNCHANGED <<now, storeUp, status, outages, pending, bulkErr, books, ij, nextId, apiVars, reportErr, userEmail, userDb, outbox>>

\* redisClient.del(key) of invalid status data (line 451)
ReportDelInvalid ==
  /\ rj.pc = "delInvalid"
  /\ IF ~storeUp
       THEN /\ rj' = ReportToCatch(rj, "store")
            /\ UNCHANGED status
       ELSE /\ status' = Del(status, rj.key)
            /\ rj' = NextStatusKey(rj)
  /\ UNCHANGED <<now, storeUp, outages, bulkVars, apiVars, reportErr, userEmail, userDb, outbox>>

\* ReportFindUser that goes to the cached address whatever the User record holds.
ReportFindUserSkips ==
  /\ rj.pc = "findUser"
  /\ \E dbOk \in BOOLEAN :
       IF ~dbOk THEN rj' = ReportToCatch(rj, "database")
       ELSE rj' = [rj EXCEPT !.pc = "cachedEmail"]
  /\ UNCHANGED <<now, storeUp, status, outages, bulkVars, apiVars, reportErr, userEmail, userDb, outbox>>

\* getUserEmail: User.findById (lines 327-331)
ReportFindUser ==
  /\ rj.pc = "findUser"
  /\ \E dbOk \in BOOLEAN :
       IF ~dbOk THEN rj' = ReportToCatch(rj, "database")
       ELSE IF rj.userId \in DOMAIN userDb /\ userDb[rj.userId].email # NoMail
         THEN rj' = [rj EXCEPT !.pc = "render", !.email = userDb[rj.userId].email]
       ELSE rj' = [rj EXCEPT !.pc = "cachedEmail"]
  /\ UNCHANGED <<now, storeUp, status, outages, bulkVars, apiVars, reportErr, userEmail, userDb, outbox>>

\* ReportCachedEmail that stores the address it settled on under
\* user_email:{userId}.
ReportCachedEmailStores ==
  /\ rj.pc = "cachedEmail"
  /\ IF ~storeUp
       THEN rj' = ReportToCatch(rj, "store") /\ UNCHANGED userEmail
       ELSE LET e == IF rj.userId \in DOMAIN userEmail /\ userEmail[rj.userId] # NoMail
                       THEN userEmail[rj.userId]
                       ELSE <<"default", DefaultEmail>>
            IN /\ rj' = [rj EXCEPT !.pc = "render", !.email = e]
               /\ userEmail' = Put(userEmail, rj.userId, e)
  /\ UNCHANGED <<now, storeUp, status, outages, bulkVars, apiVars, reportErr, userDb, outbox>>

\* getUserEmail: redisClient.get(`user_email:${userId}`), else the default (lines 333-341)
ReportCachedEmail ==
  /\ rj.pc = "cachedEmail"
  /\ IF ~storeUp
       THEN rj' = ReportToCatch(rj, "store")
       ELSE rj' = [rj EXCEPT !.pc = "render",
                             !.email = IF rj.userId \in DOMAIN userEmail
                                          /\ userEmail[rj.userId] # NoMail
                                         THEN userEmail[rj.userId]
                                         ELSE <<"default", DefaultEmail>>]
  /\ UNCHANGED <<now, storeUp, status, outages, bulkVars, apiVars, reportErr, userEmail, userDb, outbox>>

\* generatePDFReport(parsedStatus, userId): resolves or rejects (line 460)
ReportRender ==
  /\ rj.pc = "render"
  /\ \E ok \in BOOLEAN :
       LET r == GeneratePDFReport(rj.parsed) IN
       rj' = IF ok /\ r.ok THEN [rj EXCEPT !.pc = "send", !.doc = r.doc]
             ELSE ReportToCatch(rj, "render")
  /\ UNCHANGED <<now, storeUp, status, outages, bulkVars, apiVars, reportErr, userEmail, userDb, outbox>>

\* The message of one report, and how many of them the transport accepted.
Message(j) ==
  [to |-> j.email, userId |-> j.userId, key |-> j.key,
   rate |-> SuccessRate(j.parsed.successCount, j.parsed.totalBooks),
   failureNote |-> j.parsed.failureCount > 0,
   attachment |-> j.doc]
Accept(box, m) == Put(box, m, IF m \in DOMAIN box THEN box[m] + 1 ELSE 1)

\* sendReportEmail: transporter.sendMail resolves or rejects (lines 355-411, 464)
ReportSend ==
  /\ rj.pc = "send"
  /\ \E ok \in BOOLEAN :
       IF ok
         THEN /\ outbox' = Accept(outbox, Message(rj))
              /\ rj' = [rj EXCEPT !.pc = "del"]
         ELSE /\ rj' = ReportToCatch(rj, "send")
              /\ UNCHANGED outbox
  /\ UNCHANGED <<now, storeUp, status, outages, bulkVars, apiVars, reportErr, userEmail, userDb>>

\* ReportDel that goes on to the next key and leaves the record in the store.
ReportDelKeeps ==
  /\ rj.pc = "del"
  /\ IF ~storeUp
       THEN rj' = ReportToCatch(rj, "store")
       ELSE rj' = NextStatusKey(rj)
  /\ UNCHANGED <<now, storeUp, status, outages, bulkVars, apiVars, reportErr, userEmail, userDb, outbox>>

\* redisClient.del(key) after the send (line 467)
ReportDel ==
  /\ rj.pc = "del"
  /\ IF ~storeUp
       THEN /\ rj' = ReportToCatch(rj, "store")
            /\ UNCHANGED status
       ELSE /\ status' = Del(status, rj.key)
            /\ rj' = NextStatusKey(rj)
  /\ UNCHANGED <<now, storeUp, outages, bulkVars, apiVars, reportErr, userEmail, userDb, outbox>>

\* The per-record catch (lines 473-489): setEx of the error record under
\* report_error:{userId}:{Date.now()}, the clock read at that moment; a throw
\* of the setEx is caught by the outer catch (line 496) and ends the run.
ReportCatch ==
  /\ rj.pc = "catch"
  /\ \E t \in {now, now + 1} :
       /\ t <= MaxTime
       /\ now' = t
       /\ IF ~storeUp
            THEN /\ rj' = IdleReport
                 /\ UNCHANGED reportErr
            ELSE /\ reportErr' = Put(reportErr, <<rj.userId, t>>,
                                     [userId |-> rj.userId, originalKey |-> rj.key,
                                      error |-> rj.error, timestamp |-> t, retryCount |-> 0])
                 /\ rj' = NextStatusKey(rj)
  /\ UNCHANGED <<storeUp, status, outages, bulkVars, apiVars, userEmail, userDb, outbox>>

\* ------------------------------------------------------------- book routes
MaxBooks == 2

Clients == {"c1", "c2"}
Isbns == {1, 2}
BookIds == 0..MaxBooks

\* What the routes leave alone: the clock, the store's health, the jobs.
jobVars == <<now, storeUp, outages, pending, status, bulkErr, ij, obs, reportVars, auth>>

Body(title, isbn) == [title |-> title, author |-> "X", isbn |-> isbn]
CreateBodies == {Body("A", i) : i \in Isbns} \cup {Body("A", 0)}
UpdateBodies == {Body("B", i) : i \in Isbns}
BulkBodies == {<<>>, <<Body("A", 1)>>, <<Body("A", 1), Body("A", 2)>>,
               <<Body("A", 2), Body("", 1)>>}

Reverse(s) == [j \in 1..Len(s) |-> s[Len(s) + 1 - j]]
OwnedBy(u, b) == b.userId = u

\* Book.find({ userId }).sort({ createdAt: -1 }): the user's records, newest first.
UserBooks(bs, u) == Reverse(SelectSeq(bs, LAMBDA b : OwnedBy(u, b)))

\* FindOne that matches the _id alone.
FindOneAnyOwner(bs, id, u) ==
  IF \E j \in 1..Len(bs) : bs[j].id = id
    THEN CHOOSE j \in 1..Len(bs) : bs[j].id = id
    ELSE 0

\* Book.findOne({ _id, userId }): the position of the record, 0 when there is none.
FindOne(bs, id, u) ==
  IF \E j \in 1..Len(bs) : bs[j].id = id /\ bs[j].userId = u
    THEN CHOOSE j \in 1..Len(bs) : bs[j].id = id /\ bs[j].userId = u
    ELSE 0

Remove(bs, j) == [k \in 1..(Len(bs) - 1) |-> IF k < j THEN bs[k] ELSE bs[k + 1]]

\* The unique index on isbn against the records other than the one updated.
IsbnTakenByOther(bs, j, isbn) == \E k \in 1..Len(bs) : k # j /\ bs[k].isbn = isbn

\* `!title || !author || !isbn`
MissingField(b) == b.title = "" \/ b.author = "" \/ b.isbn = 0

\* Book.insertMany(docs, { ordered: false }): every document whose isbn is free
\* is inserted, a taken isbn is reported (code 11000) after the others went in.
RECURSIVE InsertMany(_, _, _, _)
InsertMany(bs, docs, u, id) ==
  IF docs = <<>> THEN [books |-> bs, nextId |-> id, dup |-> FALSE]
  ELSE IF IsbnTaken(bs, Head(docs).isbn)
    THEN [InsertMany(bs, Tail(docs), u, id) EXCEPT !.dup = TRUE]
  ELSE InsertMany(Append(bs, NewBook(Head(docs), u, id)), Tail(docs), u, id + 1)

\* invalidateUserCache that deletes nothing.
InvalidateUserCacheNoDel(c, userId) == c

\* invalidateUserCache: redis.del(`user:${userId}:books`)
InvalidateUserCache(c, userId) == Del(c, userId)

IdleReq == [pc |-> "idle", op |-> "", userId |-> "", id |-> 0, body |-> <<>>, books |-> <<>>]
NoResp == [userId |-> "", op |-> "", id |-> 0, code |-> 0, source |-> "", afterWrite |-> FALSE]
Request(op, u) == [IdleReq EXCEPT !.op = op, !.userId = u]

Writes == {"create", "update", "delete", "bulk"}
Success == {200, 201}

\* res.status(code).json(...), the end of request r of client c; code 0 is a
\* handler that threw outside its try and sent nothing.
Respond(c, r, code, source) ==
  /\ rq' = [rq EXCEPT ![c] = IdleReq]
  /\ resp' = [userId |-> r.userId, op |-> r.op, id |-> r.id, code |-> code, source |-> source,
              afterWrite |-> dirty[r.userId]]
  /\ dirty' = IF r.op \in Writes /\ code \in Success THEN [dirty EXCEPT ![r.userId] = TRUE]
              ELSE IF r.op = "list" /\ code \in Success THEN [dirty EXCEPT ![r.userId] = FALSE]
              ELSE dirty

\* The handler goes on to its next await.
Goto(c, r, pc) ==
  /\ rq' = [rq EXCEPT ![c] = [r EXCEPT !.pc = pc]]
  /\ UNCHANGED <<resp, dirty>>

\* POST /: the validation of the body (lines 17-25)
PostBook(c) ==
  /\ rq[c].pc = "idle"
  /\ nextId <= MaxBooks
  /\ \E u \in Users, b \in CreateBodies :
       LET r == [Request("create", u) EXCEPT !.body = <<b>>] IN
       IF MissingField(b) THEN Respond(c, r, 400, "") ELSE Goto(c, r, "save")
  /\ UNCHANGED <<books, nextId, cache, jobVars>>

\* POST /: book.save() (lines 28-37, 43-48)
BookSave(c) ==
  /\ rq[c].pc = "save"
  /\ \E dbOk \in BOOLEAN :
       LET r == rq[c]
           outcome == SaveOutcome(books, r.body[1].isbn, dbOk)
       IN
       IF outcome = "ok"
         THEN /\ books' = Append(books, NewBook(r.body[1], r.userId, nextId))
              /\ nextId' = nextId + 1
              /\ Goto(c, r, "invalidate")
         ELSE /\ Respond(c, r, IF outcome = "E11000" THEN 400 ELSE 500, "")
              /\ UNCHANGED <<books, nextId>>
  /\ UNCHANGED <<cache, jobVars>>

\* GET / (lines 52-55)
GetBooks(c) ==
  /\ rq[c].pc = "idle"
  /\ \E u \in Users : Goto(c, Request("list", u), "cacheGet")
  /\ UNCHANGED <<books, nextId, cache, jobVars>>

\* GET /: redis.get(cacheKey) and the answer from the cache (lines 58-65)
ListGet(c) ==
  /\ rq[c].pc = "cacheGet"
  /\ LET r == rq[c] IN
     IF ~storeUp THEN Respond(c, r, 500, "")
     ELSE IF r.userId \in DOMAIN cache THEN Respond(c, r, 200, "cache")
     ELSE Goto(c, r, "find")
  /\ UNCHANGED <<books, nextId, cache, jobVars>>

\* GET /: Book.find({ userId }).sort({ createdAt: -1 }) (line 68)
ListFind(c) ==
  /\ rq[c].pc = "find"
  /\ \E dbOk \in BOOLEAN :
       LET r == rq[c] IN
       IF dbOk THEN Goto(c, [r EXCEPT !.books = UserBooks(books, r.userId)], "setex")
       ELSE Respond(c, r, 500, "")
  /\ UNCHANGED <<books, nextId, cache, jobVars>>

\* GET /: redis.setex(cacheKey, 3600, JSON.stringify(books)) and the answer
\* from the database (lines 71-76)
ListSetex(c) ==
  /\ rq[c].pc = "setex"
  /\ LET r == rq[c] IN
     IF ~storeUp
       THEN /\ Respond(c, r, 500, "")
            /\ UNCHANGED cache
       ELSE /\ cache' = Put(cache, r.userId, JSONStringify(r.books))
            /\ Respond(c, r, 200, "database")
  /\ UNCHANGED <<books, nextId, jobVars>>

\* GET /:id (lines 83-85)
GetBook(c) ==
  /\ rq[c].pc = "idle"
  /\ \E u \in Users, id \in BookIds :
       Goto(c, [Request("get", u) EXCEPT !.id = id], "findOne")
  /\ UNCHANGED <<books, nextId, cache, jobVars>>

\* GET /:id: Book.findOne({ _id: req.params.id, userId }) and the answer
\* (lines 86-95)
BookFindOne(c) ==
  /\ rq[c].pc = "findOne"
  /\ \E dbOk \in BOOLEAN :
       LET r == rq[c]
           j == FindOne(books, r.id, r.userId)
       IN
       IF ~dbOk THEN Respond(c, r, 500, "")
       ELSE IF j = 0 THEN Respond(c, r, 404, "")
       ELSE Respond(c, r, 200, "database")
  /\ UNCHANGED <<books, nextId, cache, jobVars>>

\* PUT /:id (lines 99-102)
PutBook(c) ==
  /\ rq[c].pc = "idle"
  /\ \E u \in Users, id \in BookIds, b \in UpdateBodies :
       Goto(c, [Request("update", u) EXCEPT !.id = id, !.body = <<b>>], "update")
  /\ UNCHANGED <<books, nextId, cache, jobVars>>

\* PUT /:id: Book.findOneAndUpdate (lines 104-112, 118-123)
FindOneAndUpdate(c) ==
  /\ rq[c].pc = "update"
  /\ \E dbOk \in BOOLEAN :
       LET r == rq[c]
           j == FindOne(books, r.id, r.userId)
           b == r.body[1]
       IN
       IF ~dbOk
         THEN Respond(c, r, 500, "") /\ UNCHANGED books
       ELSE IF j = 0
         THEN Respond(c, r, 404, "") /\ UNCHANGED books
       ELSE IF IsbnTakenByOther(books, j, b.isbn)
         THEN Respond(c, r, 400, "") /\ UNCHANGED books
       ELSE /\ books' = [books EXCEPT ![j] = [@ EXCEPT !.title = b.title, !.author = b.author,
                                                        !.isbn = b.isbn]]
            /\ Goto(c, r, "invalidate")
  /\ UNCHANGED <<nextId, cache, jobVars>>

\* DELETE /:id (lines 127-129)
DeleteBook(c) ==
  /\ rq[c].pc = "idle"
  /\ \E u \in Users, id \in BookIds :
       Goto(c, [Request("delete", u) EXCEPT !.id = id], "remove")
  /\ UNCHANGED <<books, nextId, cache, jobVars>>

\* DELETE /:id: Book.findOneAndDelete (lines 130-134, 140-142)
FindOneAndDelete(c) ==
  /\ rq[c].pc = "remove"
  /\ \E dbOk \in BOOLEAN :
       LET r == rq[c]
           j == FindOne(books, r.id, r.userId)
       IN
       IF ~dbOk
         THEN Respond(c, r, 500, "") /\ UNCHANGED books
       ELSE IF j = 0
         THEN Respond(c, r, 404, "") /\ UNCHANGED books
       ELSE /\ books' = Remove(books, j)
            /\ Goto(c, r, "invalidate")
  /\ UNCHANGED <<nextId, cache, jobVars>>

\* POST /bulk: the validation of the body (lines 146-168)
PostBulk(c) ==
  /\ rq[c].pc = "idle"
  /\ \E u \in Users, bs \in BulkBodies :
       LET r == [Request("bulk", u) EXCEPT !.body = bs] IN
       /\ nextId + Len(bs) <= MaxBooks + 1
       /\ IF bs = <<>> \/ \E j \in 1..Len(bs) : MissingField(bs[j])
            THEN Respond(c, r, 400, "")
            ELSE Goto(c, r, "insertMany")
  /\ UNCHANGED <<books, nextId, cache, jobVars>>

\* POST /bulk: Book.insertMany(booksWithUserId, { ordered: false }) (lines 171, 180-189)
BulkInsert(c) ==
  /\ rq[c].pc = "insertMany"
  /\ \E dbOk \in BOOLEAN :
       LET r == rq[c]
           ins == InsertMany(books, r.body, r.userId, nextId)
       IN
       IF ~dbOk
         THEN Respond(c, r, 500, "") /\ UNCHANGED <<books, nextId>>
         ELSE /\ books' = ins.books
              /\ nextId' = ins.nextId
              /\ Goto(c, r, IF ins.dup THEN "invalidateDup" ELSE "invalidate")
  /\ UNCHANGED <<cache, jobVars>>

\* DELETE /cache/invalidate (lines 194-196)
DeleteCache(c) ==
  /\ rq[c].pc = "idle"
  /\ \E u \in Users : Goto(c, Request("invalidate", u), "invalidate")
  /\ UNCHANGED <<books, nextId, cache, jobVars>>

\* The status of the answer after the invalidation.
DoneCode(r) ==
  IF r.pc = "invalidateDup" THEN 400
  ELSE IF r.op \in {"create", "bulk"} THEN 201
  ELSE 200

\* `await invalidateUserCache(userId)` and the answer that follows it (lines
\* 40-42, 115-117, 137-139, 174-179, 183-187, 197-199). A throw in the try is
\* answered 500 by the catch; a throw of the call in the catch of POST /bulk
\* (line 183) leaves the handler and nothing is sent.
Invalidate(c) ==
  /\ rq[c].pc \in {"invalidate", "invalidateDup"}
  /\ LET r == rq[c] IN
     IF ~storeUp
       THEN /\ Respond(c, r, IF r.pc = "invalidateDup" THEN 0 ELSE 500, "")
            /\ UNCHANGED cache
       ELSE /\ cache' = InvalidateUserCache(cache, r.userId)
            /\ Respond(c, r, DoneCode(r), "")
  /\ UNCHANGED <<books, nextId, jobVars>>

\* The cache entry's time to live (3600 s) runs out.
CacheExpire ==
  /\ \E u \in DOMAIN cache : cache' = Del(cache, u)
  /\ UNCHANGED <<books, nextId, rq, resp, dirty, jobVars>>

\* ------------------------------------------------------------- authMiddleware
\* A header value is a string, written as the sequence of its characters, or
\* NoHeader (no sequence of characters) when the request carries no
\* Authorization header.
NoHeader == <<"undefined">>
None == "none"
Chars(a, b, c, d, e, f, g) == <<a, b, c, d, e, f, g>>
BearerPrefix == Chars("B", "e", "a", "r", "e", "r", " ")
TokenStart == 7

\* String.prototype.startsWith
StartsWithLoose(s, p) == Len(s) >= Len(p)
StartsWith(s, p) == Len(s) >= Len(p) /\ SubSeq(s, 1, Len(p)) = p

\* String.prototype.substring(from), from counted from 0
Substring(s, from) == SubSeq(s, from + 1, Len(s))

\* !authHeader, !token: undefined and the empty string are falsy
Falsy(s) == s = NoHeader \/ s = <<>>

\* The tokens of the model and what jwt.verify makes of them under
\* JWT_SECRET: a payload, or the name of the error it throws.
Payload(id, userId, email) == [id |-> id, userId |-> userId, email |-> email, username |-> None]
Verified ==
  (<<"v">> :> Payload("u1", None, "m1")) @@
  (<<"w">> :> Payload(None, "u2", None)) @@
  (<<"s">> :> Payload(None, None, None))
Thrown ==
  (<<"e">> :> "TokenExpiredError") @@
  (<<"n">> :> "NotBeforeError")
JwtVerify(token) ==
  IF token \in DOMAIN Verified THEN [name |-> "ok", decoded |-> Verified[token]]
  ELSE IF token \in DOMAIN Thrown THEN [name |-> Thrown[token], decoded |-> None]
  ELSE [name |-> "JsonWebTokenError", decoded |-> None]

Headers ==
  {NoHeader, <<>>, <<"B", "a", "s", "i", "c", " ", "v">>, <<"B", "e", "a", "r", "e", "r">>,
   <<"b", "e", "a", "r", "e", "r", " ", "v">>, BearerPrefix, BearerPrefix \o <<" ", "v">>}
    \cup {BearerPrefix \o t : t \in DOMAIN Verified \cup DOMAIN Thrown \cup {<<"x">>}}

NoUser == [id |-> None, email |-> None, username |-> None]
IdleAuth == [pc |-> "idle", header |-> NoHeader, sent |-> <<>>, message |-> "",
             nexts |-> 0, user |-> NoUser, handled |-> 0]

\* res.status(401).json({...})
Deny(a, message) == [a EXCEPT !.pc = "done", !.sent = Append(@, 401), !.message = message]

\* decoded.id || decoded.userId
IdOf(decoded) == IF decoded.id # None THEN decoded.id ELSE decoded.userId

\* The function from its first line to its return: it has no await, so it
\* runs in one step.
AuthMiddleware(a) ==
  IF Falsy(a.header) THEN Deny(a, "No authorization token provided")
  ELSE IF ~StartsWith(a.header, BearerPrefix)
    THEN Deny(a, "Invalid authorization format. Use Bearer token")
  ELSE LET token == Substring(a.header, TokenStart) IN
    IF Falsy(token) THEN Deny(a, "No token provided")
    ELSE LET v == JwtVerify(token) IN
      IF v.name = "ok"
        THEN [a EXCEPT !.pc = "done", !.nexts = @ + 1,
                       !.user = [id |-> IdOf(v.decoded), email |-> v.decoded.email,
                                 username |-> v.decoded.username]]
      ELSE IF v.name = "JsonWebTokenError" THEN Deny(a, "Invalid token")
      ELSE IF v.name = "TokenExpiredError" THEN Deny(a, "Token has expired")
      ELSE Deny(a, "Token validation failed")

\* A request reaches the router with its Authorization header.
AuthRequest(c) ==
  /\ auth[c].pc = "idle"
  /\ \E h \in Headers : auth' = [auth EXCEPT ![c] = [IdleAuth EXCEPT !.pc = "middleware", !.header = h]]
  /\ UNCHANGED <<now, storeUp, outages, bulkVars, status, reportVars, cache, rq, resp, dirty>>

AuthRun(c) ==
  /\ auth[c].pc = "middleware"
  /\ auth' = [auth EXCEPT ![c] = AuthMiddleware(auth[c])]
  /\ UNCHANGED <<now, storeUp, outages, bulkVars, status, reportVars, cache, rq, resp, dirty>>

\* next(): the router calls the route handler behind the middleware.
RouteHandler(c) ==
  /\ auth[c].pc = "done"
  /\ auth[c].nexts > 0
  /\ auth[c].handled = 0
  /\ auth' = [auth EXCEPT ![c].handled = 1]
  /\ UNCHANGED <<now, storeUp, outages, bulkVars, status, reportVars, cache, rq, resp, dirty>>

\* The request is over; the client may send another one.
AuthEnd(c) ==
  /\ auth[c].pc = "done"
  /\ auth[c].nexts > 0 => auth[c].handled = 1
  /\ auth' = [auth EXCEPT ![c] = IdleAuth]
  /\ UNCHANGED <<now, storeUp, outages, bulkVars, status, reportVars, cache, rq, resp, dirty>>

\* ------------------------------------------------------------- environment
StoreDown ==
  /\ storeUp
  /\ outages < MaxOutages
  /\ storeUp' = FALSE
  /\ outages' = outages + 1
  /\ UNCHANGED <<now, pending, status, bulkErr, books, ij, obs, reportVars, nextId, apiVars>>

\* A pending key removed by someone else between two steps of a run: the del
\* of an overlapping run or of another instance of the job (line 120).
PendingGone ==
  /\ \E u \in DOMAIN pending : pending' = Del(pending, u)
  /\ UNCHANGED <<now, storeUp, status, bulkErr, books, ij, outages, obs, reportVars, nextId, apiVars>>

\* A status key removed by someone else: its 24 h expiry, or the del of an
\* overlapping run or of another instance of the report job (line 467).
StatusGone ==
  /\ \E k \in DOMAIN status : status' = Del(status, k)
  /\ UNCHANGED <<now, storeUp, pending, bulkErr, books, ij, outages, obs, reportVars, nextId, apiVars>>

\* The producer writes a batch under bulk_books:{userId}: a set of the key,
\* which replaces what the key held. It does not wait for the job: here it
\* writes the batch of the user whose key the run is working on.
ProducedValues == {Unparseable, NonArray, ArrayOf(<<Good>>), ArrayOf(<<NoTitle, GoodIsbn>>)}

Produce ==
  /\ nextId <= MaxBooks
  /\ ij.pc # "idle"
  /\ \E v \in ProducedValues :
        /\ ij.userId \in DOMAIN pending => pending[ij.userId] # v
        /\ pending' = Put(pending, ij.userId, v)
  /\ UNCHANGED <<now, storeUp, status, bulkErr, books, ij, outages, obs, reportVars, nextId, apiVars>>

\* SIGINT or SIGTERM (lines 169-179): redisClient.quit() and process.exit(0).
\* The run in flight stops where it is; its locals are kept for the
\* properties to read.
Shutdown ==
  /\ ij.pc # "exited"
  /\ ij' = [ij EXCEPT !.pc = "exited"]
  /\ UNCHANGED <<now, storeUp, pending, status, bulkErr, books, outages, obs, reportVars, nextId, apiVars>>

\* The process is started again and startBulkCron schedules the job anew.
Restart ==
  /\ ij.pc = "exited"
  /\ ij' = IdleJob
  /\ UNCHANGED <<now, storeUp, pending, status, bulkErr, books, outages, obs, reportVars, nextId, apiVars>>

StoreUp ==
  /\ ~storeUp
  /\ storeUp' = TRUE
  /\ UNCHANGED <<now, pending, status, bulkErr, books, ij, outages, obs, reportVars, nextId, apiVars>>

\* ------------------------------------------------------------- specifications
ElsewhereBook == [id |-> 0, title |-> "E", author |-> "E", isbn |-> 1, userId |-> OtherUser]

InitCommon ==
  /\ now = 0
  /\ storeUp = TRUE
  /\ bulkErr = EmptyMap
  /\ ij = IdleJob
  /\ outages = 0
  /\ obs = NoObs
  /\ reportErr = EmptyMap
  /\ outbox = EmptyMap
  /\ rj = IdleReport
  /\ nextId = 1
  /\ cache = EmptyMap
  /\ rq = [c \in Clients |-> IdleReq]
  /\ resp = NoResp
  /\ dirty = [u \in Users |-> FALSE]
  /\ auth = [c \in Clients |-> IdleAuth]

\* One user's pending batch, every batch of up to MaxBatch submissions; the
\* store answers throughout.
BatchValues ==
  {EmptyStr, Unparseable, NonArray} \cup {ArrayOf(s) : s \in SeqsUpTo(Items, MaxBatch)}

InitItems ==
  /\ InitCommon
  /\ status = EmptyMap
  /\ userEmail = EmptyMap
  /\ userDb = EmptyMap
  /\ books \in {<<>>, <<ElsewhereBook>>}
  /\ \E v \in BatchValues : pending = Put(EmptyMap, "u1", v)

NextItems ==
  \/ BulkStart
  \/ BulkGet
  \/ BulkDelInvalid
  \/ BulkItem
  \/ BulkSetStatus
  \/ BulkDel
  \/ BulkCatch

SpecItems == InitItems /\ [][NextItems]_vars

\* Several users' pending keys, one value of each shape; the store may stop
\* answering and come back at any point, and the job runs pass after pass.
IngestValues ==
  {Unparseable, NonArray, ArrayOf(<<>>), ArrayOf(<<Good>>),
   ArrayOf(<<NullItem>>), ArrayOf(<<NoTitle, GoodIsbn>>)}

Maps(K, V) == UNION {[D -> V] : D \in SUBSET K}

InitIngest ==
  /\ InitCommon
  /\ status = EmptyMap
  /\ userEmail = EmptyMap
  /\ userDb = EmptyMap
  /\ books = <<ElsewhereBook>>
  /\ pending \in Maps(Users, IngestValues)

NextIngest ==
  \/ BulkStart
  \/ BulkGet
  \/ BulkDelInvalid
  \/ BulkItem
  \/ BulkSetStatus
  \/ BulkDel
  \/ BulkCatch
  \/ StoreDown
  \/ StoreUp

SpecIngest == InitIngest /\ [][NextIngest]_vars

\* Status records waiting for the report job: up to two of one user, the first
\* of any malformed shape, or one of a user without a User record. The store, the database, the
\* renderer and the transport may fail at any step.
GoodStatus(u, t) ==
  JSONStringify([userId |-> u, totalBooks |-> 2, successCount |-> 1, failureCount |-> 1,
                 timestamp |-> t,
                 failures |-> <<[index |-> 1, title |-> "Unknown",
                                 error |-> "Missing required fields: title and author"]>>])

KeyA == <<"u1", 0 - 1>>
KeyB == <<"u1", 0>>
KeyC == <<"u2", 0>>

ValuesA ==
  {GoodStatus("u1", 0 - 1), BadStatus("unparseable"), BadStatus("null"), BadStatus("prim"),
   BadStatus("nouserid"), BadStatus("nototal")}

InitStatusStore ==
  {f \in Maps({KeyA, KeyB}, ValuesA \cup {GoodStatus("u1", 0)}) :
     /\ KeyA \in DOMAIN f => f[KeyA] \in ValuesA
     /\ KeyB \in DOMAIN f => f[KeyB] = GoodStatus("u1", 0)}
  \cup {Put(EmptyMap, KeyC, GoodStatus("u2", 0))}

InitReport ==
  /\ InitCommon
  /\ pending = EmptyMap
  /\ books = <<>>
  /\ status \in InitStatusStore
  /\ userDb = Put(EmptyMap, "u1", [email |-> MailOf("u1")])
  /\ userEmail \in {EmptyMap, Put(EmptyMap, "u2", CachedMailOf("u2"))}

NextReport ==
  \/ ReportStart
  \/ ReportGet
  \/ ReportDelInvalid
  \/ ReportFindUser
  \/ ReportCachedEmail
  \/ ReportRender
  \/ ReportSend
  \/ ReportDel
  \/ ReportCatch
  \/ StoreDown
  \/ StoreUp

SpecReport == InitReport /\ [][NextReport]_vars

\* No request is in flight.
AllIdle == \A c \in Clients : rq[c].pc = "idle"

\* Requests of two users to the book routes, one after the other: a request
\* arrives when the one before it was answered. The store may stop answering
\* and come back, the database may fail, and cache entries may expire.
InitSeq ==
  /\ InitCommon
  /\ pending = EmptyMap
  /\ status = EmptyMap
  /\ userEmail = EmptyMap
  /\ userDb = EmptyMap
  /\ books = <<ElsewhereBook>>

NextSeq ==
  \/ (AllIdle /\ PostBook("c1"))
  \/ (AllIdle /\ GetBooks("c1"))
  \/ (AllIdle /\ PutBook("c1"))
  \/ (AllIdle /\ DeleteBook("c1"))
  \/ (AllIdle /\ PostBulk("c1"))
  \/ (AllIdle /\ DeleteCache("c1"))
  \/ (\E c \in Clients : BookSave(c))
  \/ (\E c \in Clients : ListGet(c))
  \/ (\E c \in Clients : ListFind(c))
  \/ (\E c \in Clients : ListSetex(c))
  \/ (\E c \in Clients : FindOneAndUpdate(c))
  \/ (\E c \in Clients : FindOneAndDelete(c))
  \/ (\E c \in Clients : BulkInsert(c))
  \/ (\E c \in Clients : Invalidate(c))
  \/ CacheExpire
  \/ StoreDown
  \/ StoreUp

SpecSeq == InitSeq /\ [][NextSeq]_vars

\* List-reads of the two users, one after the other, while the ingestion job
\* runs pass after pass over the pending batches; the store answers throughout.
InitCache ==
  /\ InitCommon
  /\ status = EmptyMap
  /\ userEmail = EmptyMap
  /\ userDb = EmptyMap
  /\ books = <<>>
  /\ \E v \in {NonArray, Unparseable} :
       pending = Put(Put(EmptyMap, "u1", ArrayOf(<<Good>>)), "u2", v)

NextCache ==
  \/ (AllIdle /\ GetBooks("c1"))
  \/ (\E c \in Clients : ListGet(c))
  \/ (\E c \in Clients : ListFind(c))
  \/ (\E c \in Clients : ListSetex(c))
  \/ CacheExpire
  \/ BulkStart
  \/ BulkGet
  \/ BulkDelInvalid
  \/ BulkItem
  \/ BulkSetStatus
  \/ BulkDel
  \/ BulkCatch

SpecCache == InitCache /\ [][NextCache]_vars

\* One status record of one user, with every combination of a User record
\* (absent, without address, with address) and a cached address (absent,
\* empty, present); the store and the database may fail at any step.
InitEmail ==
  /\ InitCommon
  /\ pending = EmptyMap
  /\ books = <<>>
  /\ \E f \in {EmptyMap, Put(EmptyMap, KeyA, BadStatus("nototal"))} :
       status = Put(f, KeyB, GoodStatus("u1", 0))
  /\ userDb \in {EmptyMap, Put(EmptyMap, "u1", [email |-> NoMail]),
                 Put(EmptyMap, "u1", [email |-> MailOf("u1")])}
  /\ userEmail \in {EmptyMap, Put(EmptyMap, "u1", NoMail),
                    Put(EmptyMap, "u1", CachedMailOf("u1"))}

SpecEmail == InitEmail /\ [][NextReport]_vars

\* One status record of every shape of counts: totalBooks, successCount and
\* the number of failures each from 0 to MaxBatch (a record need not come from
\* the ingestion job), and one whose failures fill more than a page.
FailuresOf(n) ==
  [j \in 1..n |-> [index |-> j, title |-> "Unknown",
                   error |-> "Missing required fields: title and author"]]

StatusOf(u, total, success, n) ==
  JSONStringify([userId |-> u, totalBooks |-> total, successCount |-> success,
                 failureCount |-> n, timestamp |-> 0, failures |-> FailuresOf(n)])

OverflowLen == (PageBreakY - FirstBlockY) \div BlockHeight + 2

RenderInputs ==
  {StatusOf("u1", t, k, n) : t \in 0..MaxBatch, k \in 0..MaxBatch, n \in 0..MaxBatch}
  \cup {StatusOf("u1", OverflowLen, 0, OverflowLen), BadStatus("nototal")}

InitRender ==
  /\ InitCommon
  /\ pending = EmptyMap
  /\ books = <<>>
  /\ \E v \in RenderInputs : status = Put(EmptyMap, KeyB, v)
  /\ userDb \in {EmptyMap, Put(EmptyMap, "u1", [email |-> MailOf("u1")])}
  /\ userEmail = EmptyMap

SpecRender == InitRender /\ [][NextReport]_vars

\* Both jobs at once, over two users' batches or over two status records
\* (and those the ingestion job adds), while keys they have discovered are removed by an
\* overlapping run, another instance or expiry; the database, the renderer
\* and the transport may fail.
InitRace ==
  /\ InitCommon
  /\ books = <<>>
  /\ \/ /\ \E v \in {NonArray, Unparseable} :
             pending = Put(Put(EmptyMap, "u1", ArrayOf(<<Good>>)), "u2", v)
        /\ status = EmptyMap
     \/ /\ pending = EmptyMap
        /\ \E v \in {GoodStatus("u2", 0), BadStatus("nototal")} :
             status = Put(Put(EmptyMap, KeyB, GoodStatus("u1", 0)), KeyC, v)
  /\ userDb = Put(EmptyMap, "u1", [email |-> MailOf("u1")])
  /\ userEmail = EmptyMap

NextRace ==
  \/ BulkStart
  \/ BulkGet
  \/ BulkDelInvalid
  \/ BulkItem
  \/ BulkSetStatus
  \/ BulkDel
  \/ BulkCatch
  \/ ReportStart
  \/ ReportGet
  \/ ReportDelInvalid
  \/ ReportFindUser
  \/ ReportCachedEmail
  \/ ReportRender
  \/ ReportSend
  \/ ReportDel
  \/ ReportCatch
  \/ PendingGone
  \/ StatusGone

SpecRace == InitRace /\ [][NextRace]_vars

\* The pipeline with collaborators that do not fail: the store answers, the
\* database saves unless the unique index refuses, the transport accepts, the
\* document is rendered unless generatePDFReport itself throws. Both jobs are
\* triggered again and again and every await returns.
NoFaultItem == BulkItem /\ obs'.out # <<>> /\ obs'.out[Len(obs'.out)] # "dberror"
NoFaultFindUser == ReportFindUser /\ rj'.pc # "catch"
NoFaultRender == ReportRender /\ (rj'.pc = "catch" => ~GeneratePDFReport(rj.parsed).ok)
NoFaultSend == ReportSend /\ rj'.pc # "catch"

LiveValues ==
  {ArrayOf(<<Good>>), ArrayOf(<<NoTitle, GoodIsbn>>), ArrayOf(<<NullItem>>),
   ArrayOf([j \in 1..OverflowLen |-> NoTitle]), NonArray}

InitLive ==
  /\ InitCommon
  /\ books = <<ElsewhereBook>>
  /\ status \in {EmptyMap, Put(EmptyMap, KeyA, BadStatus("nototal"))}
  /\ userDb = Put(EmptyMap, "u1", [email |-> MailOf("u1")])
  /\ userEmail = EmptyMap
  /\ pending \in {Put(EmptyMap, "u1", v) : v \in LiveValues}
                 \cup {Put(Put(EmptyMap, "u1", ArrayOf(<<NoTitle, GoodIsbn>>)),
                           "u2", ArrayOf(<<Good>>))}

BulkTick == BulkStart \/ BulkStartLate
ReportTick == ReportStart \/ ReportStartLate

NextLive ==
  \/ BulkTick
  \/ BulkGet
  \/ BulkDelInvalid
  \/ NoFaultItem
  \/ BulkSetStatus
  \/ BulkDel
  \/ BulkCatch
  \/ ReportTick
  \/ ReportGet
  \/ ReportDelInvalid
  \/ NoFaultFindUser
  \/ ReportCachedEmail
  \/ NoFaultRender
  \/ NoFaultSend
  \/ ReportDel
  \/ ReportCatch

FairLive ==
  /\ WF_vars(BulkTick) /\ WF_vars(BulkGet) /\ WF_vars(BulkDelInvalid) /\ WF_vars(NoFaultItem)
  /\ WF_vars(BulkSetStatus) /\ WF_vars(BulkDel) /\ WF_vars(BulkCatch)
  /\ WF_vars(ReportTick) /\ WF_vars(ReportGet) /\ WF_vars(ReportDelInvalid)
  /\ WF_vars(NoFaultFindUser) /\ WF_vars(ReportCachedEmail) /\ WF_vars(NoFaultRender)
  /\ WF_vars(NoFaultSend) /\ WF_vars(ReportDel) /\ WF_vars(ReportCatch)

SpecLive == InitLive /\ [][NextLive]_vars /\ FairLive

\* Requests of two clients through authMiddleware, every header of Headers.
InitAuth ==
  /\ InitCommon
  /\ pending = EmptyMap
  /\ status = EmptyMap
  /\ books = <<ElsewhereBook>>
  /\ userEmail = EmptyMap
  /\ userDb = EmptyMap

NextAuth == \E c \in Clients : AuthRequest(c) \/ AuthRun(c) \/ RouteHandler(c) \/ AuthEnd(c)

SpecAuth == InitAuth /\ [][NextAuth]_vars

\* The ingestion job with store outages, stopped by a termination signal at
\* any point and started again.
StopValues == {ArrayOf(<<Good>>), ArrayOf(<<NoTitle, GoodIsbn>>)}

InitStop ==
  /\ InitCommon
  /\ status = EmptyMap
  /\ userEmail = EmptyMap
  /\ userDb = EmptyMap
  /\ books = <<ElsewhereBook>>
  /\ pending \in {Put(Put(EmptyMap, "u1", v), "u2", ArrayOf(<<Good>>)) : v \in StopValues}
                  \cup {Put(EmptyMap, "u1", NonArray), Put(EmptyMap, "u1", ArrayOf(<<NullItem>>))}

NextStop == NextIngest \/ Shutdown \/ Restart

SpecStop == InitStop /\ [][NextStop]_vars

\* The ingestion job while the producer goes on writing batches.
InitProduce ==
  /\ InitCommon
  /\ status = EmptyMap
  /\ userEmail = EmptyMap
  /\ userDb = EmptyMap
  /\ books = <<ElsewhereBook>>
  /\ pending \in {EmptyMap, Put(EmptyMap, "u1", ArrayOf(<<Good>>))}

NextProduce ==
  \/ BulkStart
  \/ BulkGet
  \/ BulkDelInvalid
  \/ BulkItem
  \/ BulkSetStatus
  \/ BulkDel
  \/ BulkCatch
  \/ Produce

SpecProduce == InitProduce /\ [][NextProduce]_vars

\* Requests that overlap: client c1 lists while client c2 creates, updates and
\* deletes; every request runs from await to await, in any interleaving. The
\* store answers throughout and no cache entry expires.
NextOverlap ==
  \/ GetBooks("c1")
  \/ PostBook("c2")
  \/ PutBook("c2")
  \/ DeleteBook("c2")
  \/ (\E c \in Clients : ListGet(c))
  \/ (\E c \in Clients : ListFind(c))
  \/ (\E c \in Clients : ListSetex(c))
  \/ (\E c \in Clients : BookSave(c))
  \/ (\E c \in Clients : FindOneAndUpdate(c))
  \/ (\E c \in Clients : FindOneAndDelete(c))
  \/ (\E c \in Clients : Invalidate(c))

SpecOverlap == InitSeq /\ [][NextOverlap]_vars

\* Requests of two users that overlap: client c1 creates and lists while
\* client c2 reads, updates and deletes by id, each for either user, in any
\* interleaving; the database may fail.
NextTenants ==
  \/ PostBook("c1")
  \/ GetBooks("c1")
  \/ GetBook("c2")
  \/ PutBook("c2")
  \/ DeleteBook("c2")
  \/ (\E c \in Clients : BookSave(c))
  \/ (\E c \in Clients : ListGet(c))
  \/ (\E c \in Clients : ListFind(c))
  \/ (\E c \in Clients : ListSetex(c))
  \/ (\E c \in Clients : BookFindOne(c))
  \/ (\E c \in Clients : FindOneAndUpdate(c))
  \/ (\E c \in Clients : FindOneAndDelete(c))
  \/ (\E c \in Clients : Invalidate(c))

SpecTenants == InitSeq /\ [][NextTenants]_vars

\* ------------------------------------------------------------- C1
\* A submission that has both title and author.
HasTitleAndAuthor(item) == item.t = "obj" /\ item.title # "" /\ item.author # ""

\* The positions (from 0) of the batch whose submission was persisted.
Persisted(batch, out) ==
  {i \in 0..(Len(batch) - 1) : HasTitleAndAuthor(batch[i + 1]) /\ out[i + 1] = "ok"}

Indices(failures) == [j \in 1..Len(failures) |-> failures[j].index]

StrictlyIncreasing(s) == \A j \in 1..(Len(s) - 1) : s[j] < s[j + 1]

ExampleBatch == <<Good, NoTitle, GoodIsbn>>

\* The isbn is held by a record of another owner.
TakenElsewhere(isbn, userId) ==
  \E j \in 1..Len(books) : books[j].isbn = isbn /\ books[j].userId # userId

\* C1: the status record written for a batch of N submissions, K of them with
\* title and author and persisted, has totalBooks = N, successCount = K,
\* failureCount = N - K and N - K failure details, whose indices are the
\* original positions of the failed submissions, strictly increasing in
\* [0, N); the batch [A/X, ""/Y, C/Z/isbn] with the isbn taken elsewhere gives
\* successCount 1, failureCount 2 and indices [1, 2].
C1_StatusCounts ==
  ij.pc = "del" =>
    LET s == status[ij.statusKey].obj
        N == Len(ij.books)
        ok == Persisted(ij.books, obs.out)
        K == Cardinality(ok)
    IN /\ s.totalBooks = N
       /\ s.successCount = K
       /\ s.failureCount = N - K
       /\ Len(s.failures) = N - K
       /\ StrictlyIncreasing(Indices(s.failures))
       /\ {s.failures[j].index : j \in 1..Len(s.failures)} = (0..(N - 1)) \ ok
       /\ (ij.books = ExampleBatch /\ obs.out[1] = "ok" /\ TakenElsewhere(1, ij.userId)
             => /\ s.successCount = 1
                /\ s.failureCount = 2
                /\ Indices(s.failures) = <<1, 2>>)

C1_Witness ==
  /\ ij.pc = "del"
  /\ ij.books = ExampleBatch
  /\ TakenElsewhere(1, ij.userId)
  /\ obs.out = <<"ok", "invalid", "E11000">>
  /\ status[ij.statusKey].obj.successCount = 1
  /\ Indices(status[ij.statusKey].obj.failures) = <<1, 2>>

\* ------------------------------------------------------------- C4
\* C4: a failure of one submission (validation, persistence, or a submission
\* that is no mapping, such as null) is caught for that item: it never leaves
\* the item's try/catch, so no Batch Error Record is written because of it.
C4_ItemFailureIsolated ==
  /\ \A i \in 1..Len(obs.out) : obs.out[i] # "threw"
  /\ \A k \in DOMAIN bulkErr : bulkErr[k].error # "TypeError"

\* ------------------------------------------------------------- C2
\* C2: a pending key that a pass discovers and reads is deleted by the end of
\* that pass, whatever happens while it is processed, so no later pass reads
\* the same batch value again.
C2_ReadKeyDeleted ==
  /\ ij.pc = "idle" => \A u \in Users : obs.reads[u] > 0 => u \notin DOMAIN pending
  /\ \A u \in Users : obs.reads[u] <= 1

\* ------------------------------------------------------------- C3
Malformed(v) == v.kind \in {"unparseable", "nonarray"} \/ (v.kind = "array" /\ v.items = <<>>)

\* C3: for a malformed value (no JSON, no sequence, or an empty sequence) the
\* job deletes the key, writes neither a status record nor an error record,
\* persists no book, and goes on to the next key.
C3_MalformedDropped ==
  \A u \in Users :
    Malformed(obs.seen[u]) =>
      /\ \A k \in DOMAIN status : k[1] # u
      /\ \A k \in DOMAIN bulkErr : k[1] # u
      /\ \A j \in 1..Len(books) : books[j].userId # u
      /\ (ij.pc = "catch" => ij.userId # u)
      /\ (ij.pc = "idle" => u \notin DOMAIN pending)

\* ------------------------------------------------------------- C5
JobStep == ij' # ij /\ ij.pc # "idle"

Continues == IF ij.keys = <<>> THEN ij'.pc = "idle"
             ELSE ij'.pc = "get" /\ ij'.userId = Head(ij.keys) /\ ij'.keys = Tail(ij.keys)

\* C5 as claimed: an exception while one key is processed is caught by the
\* per-user handler, which writes a Batch Error Record, and every remaining
\* discovered key is still processed: the run never ends with keys left.
C5_RunNeverAborts ==
  [][JobStep =>
       /\ (ij.pc = "catch" => <<ij.userId, now>> \in DOMAIN bulkErr' /\ Continues)
       /\ (ij'.pc = "idle" => ij.keys = <<>>)]_vars

\* C5, amended: an exception while one key is processed is caught by the
\* per-user handler; when the write of the Batch Error Record succeeds the
\* record is stored and the run goes on to the next discovered key; when that
\* write throws (the store does not answer) nothing is written and the run
\* ends there, with the remaining keys unprocessed. A run ends with keys left
\* in no other way.
C5_AbortsOnlyOnErrorWrite ==
  [][JobStep =>
       /\ (ij.pc \in {"get", "delInvalid", "setStatus", "del"} /\ ~storeUp
             => ij'.pc = "catch" /\ ij'.keys = ij.keys /\ ij'.userId = ij.userId)
       /\ (ij.pc = "catch" /\ storeUp
             => /\ <<ij.userId, now>> \in DOMAIN bulkErr'
                /\ bulkErr'[<<ij.userId, now>>].userId = ij.userId
                /\ Continues)
       /\ (ij.pc = "catch" /\ ~storeUp => ij'.pc = "idle" /\ bulkErr' = bulkErr)
       /\ (ij'.pc = "idle" => ij.keys = <<>> \/ (ij.pc = "catch" /\ ~storeUp))]_vars

\* One key's exception was recorded in this run and the run is at another key.
C5_Witness ==
  /\ ij.pc = "get"
  /\ \E k \in DOMAIN bulkErr : k[2] = now /\ k[1] # ij.userId

\* ------------------------------------------------------------- C6
ReportStep == rj' # rj /\ rj.pc # "idle"

WellFormed(v) == v.kind = "object" /\ ~InvalidStatus(v)

\* The Report Error Records that name a status key.
ErrorsFor(errs, k) == {e \in DOMAIN errs : errs[e].originalKey = k}

ReportContinues ==
  IF rj.keys = <<>> THEN rj'.pc = "idle"
  ELSE rj'.pc = "get" /\ rj'.key = Head(rj.keys) /\ rj'.keys = Tail(rj.keys)

\* C6: when lookup, rendering or sending fails for a status record, the record
\* stays in the store, a Report Error Record is written under a key of its
\* own (each failed pass adds one record for it and none is lost, so k failed
\* passes leave k records), the remaining keys of the pass are processed, and
\* the next pass takes up every status key in the store again. Stated for a
\* store that answers throughout.
C6_FailedReportLoggedAndRetried ==
  /\ [][(ReportStep /\ rj.pc = "catch" /\ storeUp /\ outages = 0
           /\ rj.error \in {"database", "render", "send"})
          => /\ rj.key \in DOMAIN status'
             /\ \A k \in DOMAIN status :
                  WellFormed(status[k]) =>
                  Cardinality(ErrorsFor(reportErr', k)) =
                    Cardinality(ErrorsFor(reportErr, k)) + (IF k = rj.key THEN 1 ELSE 0)
             /\ ReportContinues]_vars
  /\ [][(rj.pc = "idle" /\ rj'.pc # "idle")
          => {rj'.key} \cup {rj'.keys[i] : i \in 1..Len(rj'.keys)} = DOMAIN status]_vars

\* ------------------------------------------------------------- C7
RECURSIVE Total(_, _)
Total(box, S) ==
  IF S = {} THEN 0
  ELSE LET m == CHOOSE x \in S : TRUE IN box[m] + Total(box, S \ {m})

\* How many reports of a status key the transport accepted.
Sends(box, k) == Total(box, {m \in DOMAIN box : m.key = k})

MalformedStatus(v) == ~WellFormed(v)

\* C8: a malformed status value (no JSON, no object, or no userId or
\* totalBooks) is deleted on the pass that reads it, with no message sent and
\* no Report Error Record, and is never read again: it never reaches the
\* per-record catch and no error record names it.
C8_MalformedDiscarded ==
  /\ rj.pc = "catch" /\ rj.key \in DOMAIN status /\ outages = 0
       => ~MalformedStatus(status[rj.key])
  /\ \A e \in DOMAIN reportErr :
       reportErr[e].originalKey \in DOMAIN status /\ outages = 0
         => ~MalformedStatus(status[reportErr[e].originalKey])

\* ------------------------------------------------------------- C9
\* Client c's request of user u is answered in this step.
Answered(c, u) == rq[c].pc # "idle" /\ rq[c].userId = u /\ rq'[c].pc = "idle"

Quiet == AllIdle /\ ij.pc = "idle" /\ rj.pc = "idle"

\* C10: every operation that adds, changes or removes a record of user u,
\* the ingestion job's saves included, deletes u's cache entry: whenever no
\* request and no job pass is in progress, a cache entry that is present is
\* the serialized list of u's records in the database.
C10_CacheMatchesStore ==
  Quiet => \A u \in DOMAIN cache : cache[u] = JSONStringify(UserBooks(books, u))

\* ------------------------------------------------------------- C11
HasUserMail(u) == u \in DOMAIN userDb /\ userDb[u].email # NoMail
HasCachedMail(u) == u \in DOMAIN userEmail /\ userEmail[u] # NoMail

\* The address by the priority order: User record, cached address, default.
ExpectedAddress(u) ==
  IF HasUserMail(u) THEN userDb[u].email
  ELSE IF HasCachedMail(u) THEN userEmail[u]
  ELSE <<"default", DefaultEmail>>

\* C11: the address of a report is the email of the User record when there
\* is one with an address, else the cached address when there is one, else
\* the default address (so the default only when both are absent); every
\* message accepted went to that address; and a lookup that throws sends
\* the record to the per-record catch with no address chosen and no message.
C11_AddressPriority ==
  /\ [](rj.pc \in {"render", "send", "del"} => rj.email = ExpectedAddress(rj.userId))
  /\ [](\A m \in DOMAIN outbox : m.to = ExpectedAddress(m.userId))
  /\ [][(ReportStep /\ rj.pc = "findUser")
          => \/ rj'.pc = "catch" /\ rj'.error = "database" /\ outbox' = outbox
             \/ rj'.pc = "render" /\ HasUserMail(rj.userId)
             \/ rj'.pc = "cachedEmail" /\ ~HasUserMail(rj.userId)]_vars
  /\ [][(ReportStep /\ rj.pc = "cachedEmail")
          => IF storeUp THEN rj'.pc = "render"
             ELSE rj'.pc = "catch" /\ rj'.email = NoMail /\ outbox' = outbox]_vars
  /\ [][(ReportStep /\ rj.pc = "catch") => outbox' = outbox /\ rj'.pc \in {"idle", "get"}]_vars

\* A report is about to go to the cached address of a user whose User record
\* has no address.
C11_Witness ==
  /\ rj.pc = "send"
  /\ "u1" \in DOMAIN userDb
  /\ ~HasUserMail("u1")
  /\ rj.email = CachedMailOf("u1")

\* ------------------------------------------------------------- C12
\* The rate a reader may be shown for a record: for totalBooks = 0 the number
\* 0 or "N/A", else successCount / totalBooks x 100 to two decimals.
RateAsSpecified(rate, st) ==
  IF st.totalBooks = 0
    THEN rate.kind = "N/A" \/ (rate.kind = "number" /\ rate.hundredths = 0)
    ELSE /\ rate.kind = "number"
         /\ 2 * st.totalBooks * rate.hundredths <= 2 * st.successCount * 10000 + st.totalBooks
         /\ 2 * st.totalBooks * rate.hundredths > 2 * st.successCount * 10000 - st.totalBooks

\* C12: the rate in the rendered report and in the message body is 0 or "N/A"
\* for a record with totalBooks = 0 (never not-a-number or infinite), and
\* successCount / totalBooks x 100 for totalBooks > 0; the computation sends
\* no record to the per-record catch.
C12_RateDefined ==
  /\ rj.pc \in {"send", "del"} => RateAsSpecified(rj.doc.rate, rj.parsed)
  /\ \A m \in DOMAIN outbox :
        m.key \in DOMAIN status => RateAsSpecified(m.rate, status[m.key].obj)

\* ------------------------------------------------------------- C13
\* C13: a rendered report has the "Failed Items Details" section exactly when
\* the status record has at least one failure, and then one block per Failure
\* Detail, numbered from 1, in the order of the failures list (increasing
\* index for the records the ingestion job writes).
C13_FailureSection ==
  rj.pc \in {"send", "del"} =>
    LET f == rj.parsed.failures
        d == rj.doc
    IN /\ d.section <=> Len(f) >= 1
       /\ Len(d.blocks) = Len(f)
       /\ \A j \in 1..Len(f) :
            /\ d.blocks[j].n = j
            /\ d.blocks[j].index = f[j].index
            /\ d.blocks[j].title = f[j].title
            /\ d.blocks[j].error = f[j].error
       /\ (StrictlyIncreasing(Indices(f))
             => StrictlyIncreasing([j \in 1..Len(d.blocks) |-> d.blocks[j].index]))

\* A report with two blocks was rendered.
C13_Witness ==
  /\ rj.pc = "send"
  /\ Len(rj.parsed.failures) = 2
  /\ rj.doc.section
  /\ Len(rj.doc.blocks) = 2
  /\ rj.doc.blocks[2].index = 2

\* ------------------------------------------------------------- C14
\* What a skipped key leaves alone: every key of the store, the Book
\* collection, the cache and the messages sent.
Stores == <<pending, status, bulkErr, reportErr, books, cache, outbox>>

\* C14: when the value of a discovered key is absent at the read, the run of
\* either job goes on to the next key of its list (or ends, after the last)
\* and leaves every store as it was: no status record, no error record, no
\* book, no message, no deletion.
C14_GoneKeySkipped ==
  /\ [][(JobStep /\ ij.pc = "get" /\ storeUp /\ ij.userId \notin DOMAIN pending)
          => Continues /\ Stores' = Stores]_vars
  /\ [][(ReportStep /\ rj.pc = "get" /\ storeUp /\ rj.key \notin DOMAIN status)
          => ReportContinues /\ Stores' = Stores]_vars

\* The ingestion run found the first key of its list gone, wrote nothing for
\* it and is at its next key.
C14_Witness ==
  /\ "u1" \in obs.skipped
  /\ ij.pc = "delInvalid"
  /\ ij.userId = "u2"
  /\ bulkErr = EmptyMap
  /\ status = EmptyMap
  /\ books = <<>>

\* ------------------------------------------------------------- C15
\* The messages accepted for a user's reports.
SentTo(u) == Total(outbox, {m \in DOMAIN outbox : m.userId = u})

\* C15: with fair scheduling and no failing collaborator, every pending batch
\* that is a non-empty sequence leads to a deleted pending key and one report
\* sent for its one status record, and from some point on the store holds no
\* pending key and no status key.
C15_PipelineDrains ==
  /\ \A u \in Users :
        (u \in DOMAIN pending /\ ~Malformed(pending[u]))
          ~> (u \notin DOMAIN pending /\ SentTo(u) = 1)
  /\ [](\A u \in Users : SentTo(u) <= 1)
  /\ <>[](pending = EmptyMap /\ status = EmptyMap)

\* ------------------------------------------------------------- C16
\* Every record of the map is still there, unchanged, after the step.
Kept(errs, errsNext) == \A k \in DOMAIN errs : k \in DOMAIN errsNext /\ errsNext[k] = errs[k]

\* C16: an error record, once written, is never modified or deleted by a job
\* (a step leaves every Batch Error Record and every Report Error Record as it
\* was), the keys a run works on are pending or status keys only, and the
\* retryCount of every Report Error Record is 0.
C16_ErrorRecordsWriteOnly ==
  /\ [][Kept(bulkErr, bulkErr') /\ Kept(reportErr, reportErr')]_vars
  /\ [](\A k \in DOMAIN reportErr : reportErr[k].retryCount = 0)
  /\ [][(rj.pc = "idle" /\ rj'.pc # "idle")
          => {rj'.key} \cup {rj'.keys[i] : i \in 1..Len(rj'.keys)} = DOMAIN status]_vars

\* ------------------------------------------------------------- C17
\* The headers the middleware is to let through: "Bearer " then a token
\* that verifies.
Passing == {BearerPrefix \o t : t \in DOMAIN Verified}

\* C17: a request that went through the middleware had exactly one outcome,
\* next() or a 401 response; next() was called only for a header that is
\* present, starts with "Bearer " and carries a non-empty token that
\* verifies, with req.user taken from the token; every other request was
\* answered 401 and its route handler was not invoked.
C17_AuthGate ==
  \A c \in Clients :
    LET a == auth[c] IN
    a.pc = "done" =>
      /\ a.nexts + Len(a.sent) = 1
      /\ a.nexts = 1 =>
            /\ a.header \in Passing
            /\ a.user.id = IdOf(Verified[Substring(a.header, Len(BearerPrefix))])
      /\ a.header \notin Passing => a.sent = <<401>> /\ a.handled = 0
      /\ a.handled = 1 => a.nexts = 1

C17_Witness ==
  /\ auth["c1"].pc = "done" /\ auth["c1"].handled = 1
  /\ auth["c1"].header = BearerPrefix \o <<"w">> /\ auth["c1"].user.id = "u2"
  /\ auth["c2"].pc = "done" /\ auth["c2"].header = BearerPrefix \o <<"e">>
  /\ auth["c2"].sent = <<401>>

\* ------------------------------------------------------------- C18
WellFormedBatch(v) == v.kind = "array" /\ v.items # <<>>

StatusWrittenFor(u, v) ==
  \E k \in DOMAIN status : k[1] = u /\ status[k].obj.totalBooks = Len(v.items)

\* C18: a well-formed pending key is deleted only by a run that has written
\* the status record of that pass, and in every state, whatever the point at
\* which the process was stopped, a well-formed batch that was read is still
\* under its pending key or has a status record written for it.
C18_StatusBeforeDelete ==
  /\ [](\A u \in Users :
          (obs.reads[u] > 0 /\ WellFormedBatch(obs.seen[u]))
            => \/ (u \in DOMAIN pending /\ pending[u] = obs.seen[u])
               \/ StatusWrittenFor(u, obs.seen[u]))
  /\ [][\A u \in DOMAIN pending :
          (WellFormedBatch(pending[u]) /\ u \notin DOMAIN pending')
            => /\ ij.userId = u
               /\ ij.statusKey \in DOMAIN status
               /\ status[ij.statusKey].obj = ij.st
               /\ status' = status]_vars

\* The process was stopped between the write of u2's status record and the
\* del of u2's key, after u1's batch had been processed and deleted.
C18_Witness ==
  /\ ij.pc = "exited" /\ ij.userId = "u2" /\ ij.statusKey \in DOMAIN status
  /\ "u2" \in DOMAIN pending /\ WellFormedBatch(pending["u2"])
  /\ "u1" \notin DOMAIN pending /\ WellFormedBatch(obs.seen["u1"])
  /\ StatusWrittenFor("u1", obs.seen["u1"])

\* ------------------------------------------------------------- C19
\* C19: no pending batch is deleted unprocessed: whenever a step removes the
\* key bulk_books:{u}, the value the key holds at that moment is the value
\* the run has read and processed, also when the producer wrote a new batch
\* between the run's read and its delete.
C19_NoBatchLost ==
  [][\A u \in DOMAIN pending :
       u \notin DOMAIN pending' => /\ ij.userId = u
                                   /\ obs.reads[u] > 0
                                   /\ obs.seen[u] = pending[u]]_vars

\* ------------------------------------------------------------- C20
\* C20: whatever the interleaving of a list-read with a create, update or
\* delete of the same user, once no request is in flight the cache entry of
\* every user is absent or is the serialized list of the user's records as
\* the database holds them.
C20_NoStaleAfterOverlap ==
  AllIdle =>
    \A u \in Users : u \notin DOMAIN cache \/ cache[u] = JSONStringify(UserBooks(books, u))

\* ------------------------------------------------------------- C21
ById == {"findOne", "update", "remove"}

\* The request names a record that another user owns.
NamesOthers(r) == \E j \in 1..Len(books) : books[j].id = r.id /\ books[j].userId # r.userId

OthersBooks(bs, u) == SelectSeq(bs, LAMBDA b : b.userId # u)

SameEntry(w) ==
  /\ w \in DOMAIN cache <=> w \in DOMAIN cache'
  /\ w \in DOMAIN cache => cache'[w] = cache[w]

AllOwnedBy(u, bs) == \A j \in 1..Len(bs) : bs[j].userId = u

\* C21: a get-by-id, update or delete of user u that names a record of
\* another user is answered 404 (500 when the database call throws), never
\* with success, and changes no record and no cache entry; every step of a
\* request of u leaves the records and the cache entries of the other users
\* as they were; the list a list-read found, and every list in the cache
\* under u's key, holds records of u only.
C21_TenantIsolation ==
  /\ [][\A c \in Clients :
          (rq[c].pc \in ById /\ rq'[c] # rq[c] /\ NamesOthers(rq[c]))
            => /\ rq'[c].pc = "idle"
               /\ resp'.userId = rq[c].userId /\ resp'.id = rq[c].id
               /\ resp'.code \in {404, 500}
               /\ books' = books
               /\ cache' = cache]_vars
  /\ [][\A c \in Clients :
          (rq[c].pc # "idle" /\ rq'[c] # rq[c])
            => /\ \A w \in Users \ {rq[c].userId} : SameEntry(w)
               /\ OthersBooks(books', rq[c].userId) = OthersBooks(books, rq[c].userId)]_vars
  /\ [](\A c \in Clients : rq[c].pc = "setex" => AllOwnedBy(rq[c].userId, rq[c].books))
  /\ [](\A u \in DOMAIN cache : AllOwnedBy(u, cache[u].obj))

\* u2's delete of u1's record was answered 404; the record and u1's cache
\* entry, which lists it, are still there.
C21_Witness ==
  /\ resp.userId = "u2" /\ resp.op = "delete" /\ resp.code = 404
  /\ \E j \in 1..Len(books) : books[j].id = resp.id /\ books[j].userId = "u1"
  /\ "u1" \in DOMAIN cache /\ Len(cache["u1"].obj) = 1 /\ cache["u1"].obj[1].id = resp.id

\* ------------------------------------------------------------- C22
\* The status keys the step writes.
WrittenBy(st, stNext) == {k \in DOMAIN stNext : k \notin DOMAIN st \/ stNext[k] # st[k]}

\* C22: every status record the ingestion job writes is an object with
\* totalBooks >= 1 (the length of the batch read), successCount +
\* failureCount = totalBooks, failureCount = the length of failures, and the
\* userId of its pending key and of its status key; and for every report
\* made from the pipeline's records the message's failure note
\* (failureCount > 0) agrees with the presence of the failure section.
C22_StatusWellFormed ==
  /\ [][\A k \in WrittenBy(status, status') :
          LET s == status'[k].obj IN
          /\ status'[k].kind = "object"
          /\ s.totalBooks >= 1
          /\ s.totalBooks = Len(obs.seen[ij.userId].items)
          /\ s.successCount + s.failureCount = s.totalBooks
          /\ s.failureCount = Len(s.failures)
          /\ s.userId = ij.userId
          /\ k[1] = s.userId]_vars
  /\ [](rj.pc \in {"send", "del"} => (rj.parsed.failureCount > 0 <=> rj.doc.section))
  /\ [](\A m \in DOMAIN outbox : m.failureNote <=> m.attachment.section)

\* The report of a batch of two, both failed, was sent with the note and
\* the section, and the report of a batch without failure with neither.
C22_Witness ==
  /\ \E m \in DOMAIN outbox :
        m.userId = "u1" /\ m.failureNote /\ m.attachment.section
          /\ Len(m.attachment.blocks) = 2
  /\ \E m \in DOMAIN outbox :
        m.userId = "u2" /\ ~m.failureNote /\ ~m.attachment.section

\* ------------------------------------------------------------- C23
\* The step only removes keys: what remains is as it was.
OnlyDeletes(st, stNext) == \A k \in DOMAIN stNext : k \in DOMAIN st /\ stNext[k] = st[k]

\* The step only writes keys: no key is removed.
OnlyWrites(errs, errsNext) == \A k \in DOMAIN errs : k \in DOMAIN errsNext

====
